---- MODULE Spec2Model ----
(***************************************************************************)
(* Model of the GDPR obfuscator: obfuscate_file (src/src/obfuscator.py),   *)
(* its chunked read-mask-write loop for csv / json / parquet sources, the  *)
(* whole-buffer format conversion, and handle_file_obfuscation             *)
(* (src/src/main.py) with the S3 helpers of src/src/utils.py.              *)
(*                                                                         *)
(* A cell of a table is a record [ty, tx]: ty is the type the value has in *)
(* its container (a csv field is untyped "text"; a json or parquet value   *)
(* is "int", "dec", "str" or "null"; a DataFrame scalar is "int", "float", *)
(* "dec", "str", "nan" or "none"), tx is the text the value is written as. *)
(***************************************************************************)
EXTENDS Integers, Sequences, FiniteSets, TLC

\* ---------------------------------------------------------------- bounds
MaxRows == 3
MaxChunk == 2
HandlerMaxRows == 1

\* ------------------------------------------------------------- data model
Cols == <<"id", "name">>
ColSet == {Cols[j] : j \in 1..Len(Cols)}

S(ty, tx) == [ty |-> ty, tx |-> tx]

Supported == {"csv", "json", "parquet"}

\* str.lower() on the format strings the model draws
Lower(s) == IF s = "CSV" THEN "csv" ELSE s

\* the lexical universe of the "id" column
IntTexts == {"7", "007"}
NumTexts == {"7", "007", "7.0", "2.5"}
NaTexts == {""}

IntCanon(t) == IF t \in {"7", "007"} THEN "7" ELSE t
FloatCanon(t) == IF t \in {"7", "007", "7.0"} THEN "7.0" ELSE t

\* the cell the k-th letter of the alphabet is, in a file of each format
CellOf(form, k) ==
    IF form = "csv"
    THEN S("text", CASE k = 1 -> "7" [] k = 2 -> "007" [] k = 3 -> "2.5"
                     [] k = 4 -> "ab" [] OTHER -> "")
    ELSE CASE k = 1 -> S("int", "7")
           [] k = 2 -> S("str", "007")
           [] k = 3 -> S("dec", "2.5")
           [] k = 4 -> S("str", "ab")
           [] OTHER -> S("null", "")
Letters == 1..5

NameCell(form) == IF form = "csv" THEN S("text", "Bond") ELSE S("str", "Bond")

RowOf(form, k) == [id |-> CellOf(form, k), name |-> NameCell(form)]

\* a parquet column has one type: all its non-null cells agree on it
ParquetTyped(rows) ==
    \A i, j \in 1..Len(rows) :
        (rows[i].id.ty # "null" /\ rows[j].id.ty # "null")
            => rows[i].id.ty = rows[j].id.ty

ContentsOf(form, n) ==
    { [form |-> form, rows |-> [i \in 1..Len(ks) |-> RowOf(form, ks[i])]] :
        ks \in UNION { [1..m -> Letters] : m \in 0..n } }

Malformed == [form |-> "malformed", rows |-> <<>>]

Contents(form, n) ==
    IF form = "parquet"
    THEN { c \in ContentsOf(form, n) : ParquetTyped(c.rows) }
    ELSE ContentsOf(form, n)

Column(rows, c) == [i \in 1..Len(rows) |-> rows[i][c]]

Min(a, b) == IF a < b THEN a ELSE b

\* ------------------------------------------------- pandas column typing
\* pd.read_csv: one dtype per column per parsed chunk
ReadCsvColumn(texts) ==
    IF \A i \in 1..Len(texts) : texts[i] \in IntTexts
    THEN [i \in 1..Len(texts) |-> S("int", IntCanon(texts[i]))]
    ELSE IF \A i \in 1..Len(texts) : texts[i] \in NumTexts \cup NaTexts
    THEN [i \in 1..Len(texts) |->
             IF texts[i] \in NaTexts THEN S("nan", "")
             ELSE S("float", FloatCanon(texts[i]))]
    ELSE [i \in 1..Len(texts) |->
             IF texts[i] \in NaTexts THEN S("nan", "")
             ELSE S("str", texts[i])]

\* pd.DataFrame(list of dicts) on the objects ijson yields
\* (int, Decimal, str, None)
DataFrameColumn(objs) ==
    IF \A i \in 1..Len(objs) : objs[i].ty = "int"
    THEN objs
    ELSE IF /\ \A i \in 1..Len(objs) : objs[i].ty \in {"int", "null"}
            /\ \E i \in 1..Len(objs) : objs[i].ty = "int"
    THEN [i \in 1..Len(objs) |->
             IF objs[i].ty = "null" THEN S("nan", "")
             ELSE S("float", FloatCanon(objs[i].tx))]
    ELSE [i \in 1..Len(objs) |->
             IF objs[i].ty = "null" THEN S("none", "") ELSE objs[i]]

\* RecordBatch.to_pandas(): an int64 column with nulls becomes float64
ToPandasColumn(vals) ==
    IF \A i \in 1..Len(vals) : vals[i].ty = "int"
    THEN vals
    ELSE IF \A i \in 1..Len(vals) : vals[i].ty \in {"int", "dec", "null"}
    THEN [i \in 1..Len(vals) |->
             IF vals[i].ty = "null" THEN S("nan", "")
             ELSE S("float", FloatCanon(vals[i].tx))]
    ELSE [i \in 1..Len(vals) |->
             IF vals[i].ty = "null" THEN S("none", "") ELSE vals[i]]

TypeColumn(form, cells) ==
    IF form = "csv" THEN ReadCsvColumn([i \in 1..Len(cells) |-> cells[i].tx])
    ELSE IF form = "json" THEN DataFrameColumn(cells)
    ELSE ToPandasColumn(cells)

\* the DataFrame one chunk of raw rows becomes
MakeDf(form, rows) ==
    [columns |-> Cols,
     rows |-> [i \in 1..Len(rows) |->
                 [c \in ColSet |-> TypeColumn(form, Column(rows, c))[i]]]]


\* ------------------------------------------------------ chunk mask engine
NoDf == [columns |-> <<>>, rows |-> <<>>]

\* obfuscate_fields_in_df: every listed column is overwritten with '***';
\* the first listed name that is no column raises KeyError
obfuscate_fields_in_df(df, fields_list) ==
    IF \E k \in 1..Len(fields_list) :
           \A j \in 1..Len(df.columns) : df.columns[j] # fields_list[k]
    THEN [exc |-> "KeyError", df |-> NoDf]
    ELSE [exc |-> "",
          df |-> [columns |-> df.columns,
                  rows |-> [i \in 1..Len(df.rows) |->
                     [c \in DOMAIN df.rows[i] |->
                        IF \E k \in 1..Len(fields_list) : fields_list[k] = c
                        THEN S("str", "***")
                        ELSE df.rows[i][c]]]]]

\* DataFrame.to_csv(output, index=False, header=...): one line per record,
\* a missing value written as the empty field
ToCsvText(s) == IF s.ty \in {"nan", "none"} THEN "" ELSE s.tx

to_csv(df, header) ==
    (IF header THEN <<df.columns>> ELSE <<>>)
    \o [i \in 1..Len(df.rows) |->
          [j \in 1..Len(df.columns) |-> ToCsvText(df.rows[i][df.columns[j]])]]

\* process_df_chunk with the header written by every call (header=True)
ProcessDfChunkAlwaysHeader(chunk, fields_list, output, is_first_chunk) ==
    LET m == obfuscate_fields_in_df(chunk, fields_list)
    IN  IF m.exc # ""
        THEN [exc |-> m.exc, output |-> output, header |-> FALSE]
        ELSE [exc |-> "", output |-> output \o to_csv(m.df, TRUE),
              header |-> TRUE]

\* process_df_chunk: mask, then append the csv form of the chunk
process_df_chunk(chunk, fields_list, output, is_first_chunk) ==
    LET m == obfuscate_fields_in_df(chunk, fields_list)
    IN  IF m.exc # ""
        THEN [exc |-> m.exc, output |-> output, header |-> FALSE]
        ELSE [exc |-> "", output |-> output \o to_csv(m.df, is_first_chunk),
              header |-> is_first_chunk]

\* ------------------------------------------------------- format converter
NoBuf == [fmt |-> "none", columns |-> <<>>, rows |-> <<>>]

\* the final csv buffer: header line and the rows' fields as text
CsvBuf(lines) ==
    [fmt |-> "csv",
     columns |-> IF lines = <<>> THEN <<>> ELSE Head(lines),
     rows |-> IF lines = <<>> THEN <<>>
              ELSE [i \in 1..(Len(lines) - 1) |->
                      [j \in 1..Len(lines[i + 1]) |-> S("text", lines[i + 1][j])]]]

\* to_json(orient='records', lines=True) / to_parquet: the typed value
ToTyped(s) == IF s.ty \in {"nan", "none"} THEN S("null", "") ELSE s

\* convert_csv_to_output_format: pd.read_csv of the whole buffer (the first
\* line is the header, one dtype per column), then the re-encoding
convert_csv_to_output_format(lines, output_format) ==
    IF lines = <<>> THEN [exc |-> "EmptyDataError", buf |-> NoBuf]
    ELSE IF output_format \notin {"json", "parquet"}
    THEN [exc |-> "ValueError", buf |-> NoBuf]
    ELSE LET header == Head(lines)
             data == Tail(lines)
             col(j) == ReadCsvColumn([i \in 1..Len(data) |-> data[i][j]])
         IN [exc |-> "",
             buf |-> [fmt |-> output_format,
                      columns |-> header,
                      rows |-> [i \in 1..Len(data) |->
                                  [j \in 1..Len(header) |-> ToTyped(col(j)[i])]]]]

\* the except clauses of obfuscate_file: KeyError stays KeyError, ValueError
\* and its subclasses become ValueError, anything else a plain Exception
ValueErrors == {"ValueError", "EmptyDataError", "ArrowInvalid"}

\* the except clauses without the one for ValueError
WrapNoValueError(exc) == IF exc = "KeyError" THEN "KeyError" ELSE "Exception"

Wrap(exc) ==
    IF exc = "KeyError" THEN "KeyError"
    ELSE IF exc \in ValueErrors THEN "ValueError"
    ELSE "Exception"

\* lines 189-197 of obfuscate_file: the output format defaults to the source
\* type, is checked, and any format but csv goes through the converter
ResolveAndConvert(lines, file_type_l, output_format_arg) ==
    LET fmt == IF output_format_arg = "None" THEN file_type_l
               ELSE output_format_arg
    IN  IF fmt \notin Supported THEN [exc |-> "ValueError", buf |-> NoBuf]
        ELSE IF fmt = "csv" THEN [exc |-> "", buf |-> CsvBuf(lines)]
        ELSE convert_csv_to_output_format(lines, fmt)

\* ----------------------------------------- the pipeline as a function
\* the csv and parquet loops: batches of chunk_size records from record p on
RECURSIVE ReadLoop(_, _, _, _, _, _, _)
ReadLoop(form, rows, fields, size, p, out, first) ==
    LET last == Min(p + size, Len(rows))
        r == process_df_chunk(MakeDf(form, SubSeq(rows, p + 1, last)),
                              fields, out, first)
    IN  IF p < Len(rows) \/ (form = "csv" /\ Len(rows) = 0 /\ first)
        THEN IF r.exc # "" THEN [exc |-> r.exc, output |-> out]
             ELSE ReadLoop(form, rows, fields, size, last, r.output, FALSE)
        ELSE [exc |-> "", output |-> out]

\* process_json_chunk: items are collected one by one, a full chunk is
\* processed, the rest is processed after the loop
RECURSIVE process_json_chunk(_, _, _, _, _, _, _)
process_json_chunk(rows, fields, size, p, items, out, first) ==
    IF p < Len(rows)
    THEN LET c == Append(items, rows[p + 1])
             r == process_df_chunk(MakeDf("json", c), fields, out, first)
         IN IF Len(c) = size
            THEN IF r.exc # "" THEN [exc |-> r.exc, output |-> out]
                 ELSE process_json_chunk(rows, fields, size, p + 1, <<>>,
                                         r.output, FALSE)
            ELSE process_json_chunk(rows, fields, size, p + 1, c, out, first)
    ELSE IF items # <<>>
    THEN LET r == process_df_chunk(MakeDf("json", items), fields, out, first)
         IN [exc |-> r.exc, output |-> r.output]
    ELSE [exc |-> "", output |-> out]

convert_str_file_content_to_obfuscated_csv(content, fields, ftype, size) ==
    IF ftype \notin Supported THEN [exc |-> "ValueError", output |-> <<>>]
    ELSE IF ftype = "csv"
    THEN IF size < 1 THEN [exc |-> "ValueError", output |-> <<>>]
         ELSE IF content.form # "csv"
         THEN [exc |-> "EmptyDataError", output |-> <<>>]
         ELSE ReadLoop("csv", content.rows, fields, size, 0, <<>>, TRUE)
    ELSE IF ftype = "json"
    THEN IF content.form # "json"
         THEN [exc |-> "IncompleteJSONError", output |-> <<>>]
         ELSE process_json_chunk(content.rows, fields, size, 0, <<>>, <<>>,
                                 TRUE)
    ELSE IF content.form = "malformed"
         THEN [exc |-> "ArrowInvalid", output |-> <<>>]
         ELSE IF content.form # "parquet"
         THEN [exc |-> "FileNotFoundError", output |-> <<>>]
         ELSE IF size < 1 THEN [exc |-> "ArrowInvalid", output |-> <<>>]
         ELSE ReadLoop("parquet", content.rows, fields, size, 0, <<>>, TRUE)

\* obfuscate_file as a function of its arguments: [exc, buf], exc the class
\* the caller catches ("" when a buffer is returned)
obfuscate_file(content, fields, file_type_arg, output_format_arg, size) ==
    LET s == convert_str_file_content_to_obfuscated_csv(
                 content, fields, Lower(file_type_arg), size)
        r == ResolveAndConvert(s.output, Lower(file_type_arg),
                               output_format_arg)
    IN  IF s.exc # "" THEN [exc |-> Wrap(s.exc), buf |-> NoBuf]
        ELSE IF r.exc # "" THEN [exc |-> Wrap(r.exc), buf |-> NoBuf]
        ELSE [exc |-> "", buf |-> r.buf]

\* ------------------------------------------------------------------ state
VARIABLES
    caller,         \* "direct": obfuscate_file is called by the user;
                    \* "handler": by handle_file_obfuscation
    descriptor,     \* handler: the json descriptor is "ok" or "missing_keys"
    file_key,       \* handler: [path, ext] of the source object
    s3_object,      \* handler: the stored object (a content, or form "absent")
    if_output_different_format, requested_format, if_save_to_s3,
    store,          \* handler: the objects put_object wrote, [key, buf]
    hresult,        \* handler: what handle_file_obfuscation gave its caller
    file_content, fields_list, file_type, output_format, chunk_size,
    pc,             \* position in handle_file_obfuscation / obfuscate_file
    pos,            \* records the reader has consumed
    chunk,          \* process_json_chunk: the items collected so far
    is_first_chunk,
    output,         \* the intermediate csv buffer, a sequence of lines
    batches,        \* history: the batches handed to process_df_chunk
    header_writes,  \* history: writes made with header=True
    raised,         \* history: the class of the exception at its origin
    result          \* what obfuscate_file gave its caller

vars == <<caller, descriptor, file_key, s3_object, if_output_different_format,
          requested_format, if_save_to_s3, store, hresult, file_content,
          fields_list, file_type, output_format, chunk_size, pc, pos, chunk,
          is_first_chunk, output, batches, header_writes, raised, result>>

hvars == <<caller, descriptor, file_key, s3_object, if_output_different_format,
           requested_format, if_save_to_s3>>
args == <<file_content, fields_list, chunk_size>>

Pending == [st |-> "pending", exc |-> "", buf |-> NoBuf]
Returned(buf) == [st |-> "returned", exc |-> "", buf |-> buf]
Raised(exc) == [st |-> "raised", exc |-> exc, buf |-> NoBuf]

FieldLists == {<<>>, <<"name">>, <<"id", "name">>, <<"name", "cohort">>}
FileTypes == {"csv", "json", "parquet", "CSV", "xlsx"}
OutputFormats == {"None", "csv", "json", "parquet", "xlsx"}
ChunkSizes == 0..MaxChunk

DirectContents(ft) ==
    IF Lower(ft) \in Supported
    THEN Contents(Lower(ft), MaxRows) \cup {Malformed}
    ELSE Contents("csv", 1)

KeyPaths == {<<"f">>, <<"new_data", "/", "f">>,
             <<"new_data", "/", "new_data", "_f">>}
KeyExts == {"csv", "json", "parquet", "CSV", "xlsx"}
Absent == [form |-> "absent", rows |-> <<>>]

StoredObjects(ext) ==
    IF Lower(ext) \in Supported
    THEN Contents(Lower(ext), HandlerMaxRows) \cup {Malformed, Absent}
    ELSE {Malformed}

InitRun ==
    /\ pos = 0
    /\ chunk = <<>>
    /\ is_first_chunk = TRUE
    /\ output = <<>>
    /\ batches = <<>>
    /\ header_writes = 0
    /\ raised = ""
    /\ result = Pending
    /\ store = <<>>
    /\ hresult = Pending

InitDirect ==
    /\ caller = "direct"
    /\ descriptor = "ok"
    /\ file_key = [path |-> <<>>, ext |-> ""]
    /\ s3_object = Absent
    /\ if_output_different_format = FALSE
    /\ requested_format = "None"
    /\ if_save_to_s3 = FALSE
    /\ file_type \in FileTypes
    /\ file_content \in DirectContents(file_type)
    /\ fields_list \in FieldLists
    /\ output_format \in OutputFormats
    /\ chunk_size \in ChunkSizes
    /\ pc = "call"
    /\ InitRun

InitHandler ==
    /\ caller = "handler"
    /\ descriptor \in {"ok", "missing_keys"}
    /\ file_key \in [path : KeyPaths, ext : KeyExts]
    /\ s3_object \in StoredObjects(file_key.ext)
    /\ if_output_different_format \in BOOLEAN
    /\ requested_format \in OutputFormats
    /\ if_save_to_s3 \in BOOLEAN
    /\ fields_list \in {<<"name">>, <<"name", "cohort">>}
    /\ chunk_size \in {0, 1}
    /\ file_type = ""
    /\ file_content = Absent
    /\ output_format = "None"
    /\ pc = "h_start"
    /\ InitRun

Init == InitDirect \/ InitHandler

\* ------------------------------------------------------- obfuscate_file
\* an exception leaves obfuscate_file through its except clauses
Raise(exc) ==
    /\ raised' = exc
    /\ result' = Raised(Wrap(exc))
    /\ pc' = "raised"

\* what one call of process_df_chunk on the raw rows of a batch does
Process(form, rows) ==
    LET r == process_df_chunk(MakeDf(form, rows), fields_list, output,
                              is_first_chunk)
    IN  /\ batches' = Append(batches, rows)
        /\ IF r.exc # ""
           THEN /\ Raise(r.exc)
                /\ UNCHANGED <<output, header_writes>>
           ELSE /\ output' = r.output
                /\ header_writes' = header_writes + (IF r.header THEN 1 ELSE 0)
                /\ UNCHANGED <<raised, result>>

\* obfuscate_file up to the first read: lower-case the type, check it, open
\* the reader of that type (file_type keeps the argument; the lower-cased
\* local is Lower(file_type))
Call ==
    /\ pc = "call"
    /\ UNCHANGED <<hvars, args, store, hresult, file_type, output_format,
                   pos, chunk, is_first_chunk, output, batches,
                   header_writes>>
    /\ IF Lower(file_type) \notin Supported
       THEN Raise("ValueError")
       ELSE IF Lower(file_type) = "csv"
       THEN IF chunk_size < 1 THEN Raise("ValueError")
            ELSE IF file_content.form # "csv" THEN Raise("EmptyDataError")
            ELSE pc' = "csv_loop" /\ UNCHANGED <<raised, result>>
       ELSE IF Lower(file_type) = "json"
       THEN pc' = "json_loop" /\ UNCHANGED <<raised, result>>
       ELSE IF file_content.form = "malformed" THEN Raise("ArrowInvalid")
            ELSE IF file_content.form # "parquet"
            THEN Raise("FileNotFoundError")
            ELSE pc' = "parquet_loop" /\ UNCHANGED <<raised, result>>

\* one turn of `for chunk in chunk_iter`: the next chunk_size records (a
\* file of a header and no record gives one empty chunk), or the end
CsvNextChunk ==
    /\ pc = "csv_loop"
    /\ UNCHANGED <<hvars, args, store, hresult, file_type, output_format,
                   chunk>>
    /\ LET n == Len(file_content.rows)
           last == Min(pos + chunk_size, n)
       IN IF pos < n \/ (n = 0 /\ is_first_chunk)
          THEN /\ Process("csv", SubSeq(file_content.rows, pos + 1, last))
               /\ pos' = last
               /\ is_first_chunk' = (raised' # "" /\ is_first_chunk)
               /\ IF raised' = "" THEN pc' = "csv_loop" ELSE TRUE
          ELSE /\ pc' = "resolve"
               /\ UNCHANGED <<pos, is_first_chunk, output, batches,
                              header_writes, raised, result>>

\* one turn of `for obj in json_objects`
JsonNextItem ==
    /\ pc = "json_loop"
    /\ file_content.form # "json" \/ pos < Len(file_content.rows)
    /\ UNCHANGED <<hvars, args, store, hresult, file_type, output_format>>
    /\ IF file_content.form # "json"
       THEN /\ Raise("IncompleteJSONError")
            /\ UNCHANGED <<pos, chunk, is_first_chunk, output, batches,
                           header_writes>>
       ELSE LET c == Append(chunk, file_content.rows[pos + 1])
            IN /\ pos' = pos + 1
               /\ IF Len(c) = chunk_size
                  THEN /\ Process("json", c)
                       /\ is_first_chunk' = (raised' # "" /\ is_first_chunk)
                       /\ chunk' = IF raised' = "" THEN <<>> ELSE c
                       /\ IF raised' = "" THEN pc' = "json_loop" ELSE TRUE
                  ELSE /\ chunk' = c
                       /\ UNCHANGED <<pc, is_first_chunk, output, batches,
                                      header_writes, raised, result>>

\* the end of the json loop without the flush of the partial batch
JsonEndNoFlush ==
    /\ pc = "json_loop"
    /\ file_content.form = "json"
    /\ pos = Len(file_content.rows)
    /\ pc' = "resolve"
    /\ UNCHANGED <<hvars, args, store, hresult, file_type, output_format,
                   pos, chunk, is_first_chunk, output, batches,
                   header_writes, raised, result>>

\* the end of the json loop: `if chunk:` flushes the partial batch
JsonEnd ==
    /\ pc = "json_loop"
    /\ file_content.form = "json"
    /\ pos = Len(file_content.rows)
    /\ UNCHANGED <<hvars, args, store, hresult, file_type, output_format,
                   pos, chunk, is_first_chunk>>
    /\ IF chunk # <<>>
       THEN /\ Process("json", chunk)
            /\ IF raised' = "" THEN pc' = "resolve" ELSE TRUE
       ELSE /\ pc' = "resolve"
            /\ UNCHANGED <<output, batches, header_writes, raised, result>>

\* one turn of `for batch in parquet_file.iter_batches(batch_size=...)`
ParquetNextBatch ==
    /\ pc = "parquet_loop"
    /\ UNCHANGED <<hvars, args, store, hresult, file_type, output_format,
                   chunk>>
    /\ LET n == Len(file_content.rows)
           last == Min(pos + chunk_size, n)
       IN IF chunk_size < 1
          THEN /\ Raise("ArrowInvalid")
               /\ UNCHANGED <<pos, is_first_chunk, output, batches,
                              header_writes>>
          ELSE IF pos < n
          THEN /\ Process("parquet", SubSeq(file_content.rows, pos + 1, last))
               /\ pos' = last
               /\ is_first_chunk' = (raised' # "" /\ is_first_chunk)
               /\ IF raised' = "" THEN pc' = "parquet_loop" ELSE TRUE
          ELSE /\ pc' = "resolve"
               /\ UNCHANGED <<pos, is_first_chunk, output, batches,
                              header_writes, raised, result>>

\* after the loop: resolve the output format, convert, return
Resolve ==
    /\ pc = "resolve"
    /\ UNCHANGED <<hvars, args, store, hresult, file_type, output_format,
                   pos, chunk, is_first_chunk, output, batches,
                   header_writes>>
    /\ LET r == ResolveAndConvert(output, Lower(file_type), output_format)
       IN IF r.exc # "" THEN Raise(r.exc)
          ELSE /\ result' = Returned(r.buf)
               /\ pc' = "returned"
               /\ raised' = raised


\* ---------------------------------------------- handle_file_obfuscation
\* a replacement of the first occurrence only, str.replace(old, new, 1)
ReplaceFirst(path) ==
    [i \in 1..Len(path) |->
        IF path[i] = "new_data" /\ \A k \in 1..(i - 1) : path[k] # "new_data"
        THEN "processed_data" ELSE path[i]]

\* str.replace('new_data', 'processed_data') on a key given as its pieces,
\* 'new_data' being a piece of its own
replace(path) ==
    [i \in 1..Len(path) |->
        IF path[i] = "new_data" THEN "processed_data" ELSE path[i]]

\* file_key.split('.')[-1].lower()
Extension(key) == Lower(key.ext)

\* read_s3_file: the text handed to obfuscate_file; a parquet object is
\* read whole and turned into csv text
read_s3_file(obj, key) ==
    IF obj.form = "absent" THEN [exc |-> "ClientError", content |-> Absent]
    ELSE IF Extension(key) \in {"csv", "json"}
    THEN [exc |-> "", content |-> obj]
    ELSE IF Extension(key) = "parquet"
    THEN IF obj.form # "parquet"
         THEN [exc |-> "ArrowInvalid", content |-> Absent]
         ELSE [exc |-> "",
               content |->
                 [form |-> "csv",
                  rows |-> [i \in 1..Len(obj.rows) |->
                     [c \in ColSet |->
                        S("text",
                          ToCsvText(ToPandasColumn(Column(obj.rows, c))[i]))]]]]
    ELSE [exc |-> "ValueError", content |-> Absent]

\* write_s3_file: text keys take the buffer decoded as utf-8, a parquet key
\* takes the bytes
write_s3_file(key, buf) ==
    IF Extension(key) \in {"csv", "json"}
    THEN IF buf.fmt = "parquet" THEN "UnicodeDecodeError" ELSE ""
    ELSE IF Extension(key) = "parquet" THEN ""
    ELSE "ValueError"

\* json_input_handler, read_s3_file and the call of obfuscate_file
HandlerStart ==
    /\ pc = "h_start"
    /\ UNCHANGED <<hvars, fields_list, chunk_size, store, pos, chunk,
                   is_first_chunk, output, batches, header_writes, result>>
    /\ LET rd == read_s3_file(s3_object, file_key)
           exc == IF descriptor # "ok" THEN "ValueError" ELSE rd.exc
       IN IF exc # ""
          THEN /\ raised' = exc
               /\ hresult' = Raised("Exception")
               /\ pc' = "h_done"
               /\ UNCHANGED <<file_content, file_type, output_format>>
          ELSE /\ file_content' = rd.content
               /\ file_type' = Extension(file_key)
               /\ output_format' = IF if_output_different_format
                                   THEN requested_format ELSE "None"
               /\ pc' = "call"
               /\ UNCHANGED <<raised, hresult>>

\* obfuscate_file returned: save under the new key, or hand the buffer back
HandlerReturn ==
    /\ pc = "returned"
    /\ caller = "handler"
    /\ pc' = "h_done"
    /\ UNCHANGED <<hvars, args, file_type, output_format, pos, chunk,
                   is_first_chunk, output, batches, header_writes, result>>
    /\ IF if_save_to_s3
       THEN LET output_file_key == [path |-> replace(file_key.path),
                                    ext |-> file_key.ext]
                exc == write_s3_file(output_file_key, result.buf)
            IN IF exc # ""
               THEN /\ raised' = exc
                    /\ hresult' = Raised("Exception")
                    /\ store' = store
               ELSE /\ store' = Append(store, [key |-> output_file_key,
                                               buf |-> result.buf])
                    /\ hresult' = Returned(NoBuf)
                    /\ raised' = raised
       ELSE /\ hresult' = Returned(result.buf)
            /\ UNCHANGED <<store, raised>>

\* obfuscate_file raised: `except Exception as e: raise Exception(str(e))`
HandlerExcept ==
    /\ pc = "raised"
    /\ caller = "handler"
    /\ pc' = "h_done"
    /\ hresult' = Raised("Exception")
    /\ UNCHANGED <<hvars, args, file_type, output_format, store, pos, chunk,
                   is_first_chunk, output, batches, header_writes, raised,
                   result>>

Next ==
    \/ Call
    \/ CsvNextChunk
    \/ JsonNextItem
    \/ JsonEnd
    \/ ParquetNextBatch
    \/ Resolve
    \/ HandlerStart
    \/ HandlerReturn
    \/ HandlerExcept

Spec == Init /\ [][Next]_vars

\* ------------------------------------------------------------- properties
FieldSet == {fields_list[k] : k \in 1..Len(fields_list)}

\* the columns the data has: a json array of no object has none
DataColumns(content) ==
    IF content.form = "json" /\ content.rows = <<>> THEN {} ELSE ColSet

\* the content is well-formed in the format obfuscate_file is told it has
WellFormed == file_content.form = Lower(file_type)

Finished == result.st # "pending"

NumCanon(t) == IF t \in {"7", "007", "7.0"} THEN "7" ELSE t

Kind(s) ==
    IF s.ty \in {"int", "float", "dec"} THEN "num"
    ELSE IF s.ty \in {"null", "nan", "none"} THEN "null"
    ELSE "str"

\* two cells carry the same value: numbers compare as numbers; against an
\* untyped csv field only the text is compared
SameValue(a, b) ==
    IF a.ty = "text" \/ b.ty = "text"
    THEN \/ a.tx = b.tx
         \/ a.tx \in NumTexts /\ b.tx \in NumTexts
                /\ NumCanon(a.tx) = NumCanon(b.tx)
    ELSE /\ Kind(a) = Kind(b)
         /\ \/ a.tx = b.tx
            \/ Kind(a) = "num" /\ NumCanon(a.tx) = NumCanon(b.tx)

\* C1 (as claimed): for a well-formed content, chunk_size >= 1 and a field
\* list of columns of the data, the returned buffer has the same number of
\* records and the same column order as the input, '***' in every listed
\* column and, in every other column, the value the input has there.
C1_MaskedAndOthersUnchanged ==
    (result.st = "returned" /\ WellFormed /\ chunk_size >= 1
        /\ FieldSet \subseteq DataColumns(file_content)) =>
        /\ Len(result.buf.rows) = Len(file_content.rows)
        /\ result.buf.rows # <<>> => result.buf.columns = Cols
        /\ \A i \in 1..Len(result.buf.rows) : \A j \in 1..Len(Cols) :
              IF Cols[j] \in FieldSet
              THEN result.buf.rows[i][j].tx = "***"
              ELSE SameValue(file_content.rows[i][Cols[j]],
                             result.buf.rows[i][j])

\* C2 (as claimed): for a well-formed content of a supported format and
\* chunk_size >= 1, a field list with a name that is no column of the data
\* makes obfuscate_file raise KeyError, and no buffer is returned.
C2_MissingFieldRaisesKeyError ==
    (Finished /\ WellFormed /\ Lower(file_type) \in Supported
        /\ chunk_size >= 1
        /\ ~(FieldSet \subseteq DataColumns(file_content))) =>
        /\ result.st = "raised"
        /\ result.exc = "KeyError"

\* C3 (as claimed): a source format string outside {csv, json, parquet}, or
\* a target format string outside it, makes obfuscate_file raise ValueError,
\* whatever the content and the field list are.
C3_UnsupportedFormatRaisesValueError ==
    (Finished /\ (file_type \notin Supported
                    \/ output_format \notin Supported \cup {"None"})) =>
        /\ result.st = "raised"
        /\ result.exc = "ValueError"

\* C3 (amended): a source format whose lower-case form is outside
\* {csv, json, parquet} makes obfuscate_file raise ValueError before any
\* batch is processed, whatever the content and the field list are; with a
\* target format outside the set no buffer is returned, and the error is a
\* ValueError unless the read-mask-write loop has itself raised a KeyError
\* or an error that is no ValueError before the target format is looked at.
C3_Amended ==
    Finished =>
        /\ Lower(file_type) \notin Supported =>
              /\ result = Raised("ValueError")
              /\ batches = <<>>
        /\ output_format \notin Supported \cup {"None"} =>
              /\ result.st = "raised"
              /\ \/ result.exc = "ValueError"
                 \/ raised \in {"KeyError", "IncompleteJSONError",
                                "FileNotFoundError"}

C3_Witness ==
    /\ output_format = "xlsx"
    /\ Lower(file_type) \in Supported
    /\ batches # <<>>
    /\ raised = "ValueError"
    /\ result = Raised("ValueError")

\* C4 (as claimed): once the read-mask-write loop is over, the header line
\* has been written exactly once, whatever the source format, chunk size
\* and row count.
C4_HeaderExactlyOnce ==
    (pc = "resolve" /\ WellFormed /\ chunk_size >= 1) =>
        /\ header_writes = 1
        /\ output # <<>> /\ output[1] = Cols

\* C4 (amended): the header line is written at most once; it is written
\* exactly once, as the first line and by the first write, as soon as one
\* batch has been written, and never when no batch is written (a json
\* array of no item, a parquet file of no record).
C4_Amended ==
    /\ header_writes = (IF output = <<>> THEN 0 ELSE 1)
    /\ output # <<>> =>
          /\ output[1] = Cols
          /\ \A k \in 2..Len(output) : output[k] # Cols
    /\ (pc = "resolve" /\ batches # <<>>) => header_writes = 1

C4_Witness ==
    /\ pc = "resolve"
    /\ Len(batches) >= 2
    /\ header_writes = 1
    /\ Len(output) = 1 + Len(file_content.rows)

\* C5 (as claimed): for a fixed content, field list and formats, the buffer
\* obfuscate_file returns is the one it returns for every other chunk size
\* between 1 and the row count.
C5_ChunkSizeInvariant ==
    (result.st = "returned" /\ chunk_size >= 1) =>
        \A size \in 1..Len(file_content.rows) :
            obfuscate_file(file_content, fields_list, file_type,
                           output_format, size).buf = result.buf

\* the class the caller catches keeps the kind of the original error
KindKept(origin, caught) ==
    \/ caught = origin
    \/ caught = "ValueError" /\ origin \in ValueErrors

\* C6 (as claimed): an error reaches the caller of obfuscate_file, and the
\* caller of handle_file_obfuscation, with the kind it had at its origin.
C6_ErrorKindPreserved ==
    /\ result.st = "raised" => KindKept(raised, result.exc)
    /\ hresult.st = "raised" => KindKept(raised, hresult.exc)

\* C7 (as claimed): with chunk_size <= 0 obfuscate_file raises the
\* configuration error (ValueError) before any batch is masked or written,
\* and returns no buffer.
C7_NonPositiveChunkSizeRejected ==
    (Finished /\ WellFormed /\ Lower(file_type) \in Supported
        /\ chunk_size <= 0) =>
        /\ result = Raised("ValueError")
        /\ batches = <<>>
        /\ output = <<>>

\* C8 (as claimed): the key an object is saved under is the source key with
\* the first 'new_data' replaced by 'processed_data' and any later one kept.
C8_FirstOccurrenceReplaced ==
    \A k \in 1..Len(store) :
        /\ store[k].key.path = ReplaceFirst(file_key.path)
        /\ store[k].key.ext = file_key.ext

\* C8 (amended): the key an object is saved under is the source key with
\* every occurrence of 'new_data' replaced by 'processed_data'; the rest of
\* the key, its extension included, is kept.
C8_Amended ==
    \A k \in 1..Len(store) :
        /\ store[k].key.ext = file_key.ext
        /\ Len(store[k].key.path) = Len(file_key.path)
        /\ \A i \in 1..Len(file_key.path) :
              /\ file_key.path[i] = "new_data"
                    => store[k].key.path[i] = "processed_data"
              /\ file_key.path[i] # "new_data"
                    => store[k].key.path[i] = file_key.path[i]

C8_Witness ==
    /\ Len(store) = 1
    /\ Cardinality({i \in 1..Len(file_key.path) :
                        file_key.path[i] = "new_data"}) = 2
    /\ hresult.st = "returned"

RECURSIVE Flatten(_)
Flatten(ss) == IF ss = <<>> THEN <<>> ELSE Head(ss) \o Flatten(Tail(ss))

\* C9: for chunk_size >= 1 and a json array, the batches handed to the
\* mask-and-write step are, in file order, the items read so far (all of
\* them once the loop is over); none is empty, every batch but the one
\* flushed after the loop holds exactly chunk_size items and that one holds
\* 1 to chunk_size items.
C9_JsonBatches ==
    (Lower(file_type) = "json" /\ file_content.form = "json"
        /\ chunk_size >= 1) =>
        /\ \A k \in 1..Len(batches) :
              /\ Len(batches[k]) >= 1
              /\ Len(batches[k]) <= chunk_size
              /\ (k < Len(batches) \/ pc = "json_loop")
                    => Len(batches[k]) = chunk_size
        /\ Flatten(batches) \o (IF pc = "json_loop" THEN chunk ELSE <<>>)
              = SubSeq(file_content.rows, 1, pos)
        /\ (pc = "resolve" \/ result.st = "returned")
              => Flatten(batches) = file_content.rows

C9_Witness ==
    /\ Lower(file_type) = "json"
    /\ pc = "resolve"
    /\ chunk_size = 2
    /\ Len(batches) = 2
    /\ Len(batches[1]) = 2
    /\ Len(batches[2]) = 1

\* C10 (as claimed): an object handle_file_obfuscation writes is encoded in
\* the format its key's extension names.
C10_WrittenFormatMatchesKey ==
    \A k \in 1..Len(store) : store[k].buf.fmt = Extension(store[k].key)
====
